---- MODULE Spec2Model ----
(***************************************************************************)
(* Model of the movie-tracker backend (src/server.js) over the PostgreSQL  *)
(* schema of src/README.md: the register / login handlers, the bearer      *)
(* token middleware and the saved-movie handlers behind it.                *)
(*                                                                         *)
(* Every `await pool.query(...)` is one atomic step of the database; a     *)
(* handler with several awaits on state that other requests may change     *)
(* (register) is a process with one action per await.                      *)
(***************************************************************************)
EXTENDS Integers, Sequences, FiniteSets

VARIABLES
    users,      \* rows of table users
    usersSeq,   \* next value of the SERIAL sequence behind users.id
    saved,      \* rows of table saved_movies, in insertion (created_at) order
    savedSeq,   \* next value of the sequence behind saved_movies.id
    now,        \* wall clock, in seconds (Date.now() / 1000)
    ticks,      \* how many times the clock has been advanced
    reg,        \* the register requests in flight, one per client connection
    completed,  \* history: the (username, email) pairs answered 201 so far
    issued,     \* the tokens the clients hold, with who obtained them: each
                \* account's register token and the latest login token
    removed,    \* history: the deletes answered 200 whose (user, movie) has
                \* not been saved again since
    resp        \* the response a login / protected request has just been
                \* given (forgotten when the clock moves on)

vars == <<users, usersSeq, saved, savedSeq, now, ticks, reg, completed,
          issued, removed, resp>>

dbVars == <<users, usersSeq, saved, savedSeq>>

----------------------------------------------------------------------------
(* Bounds of the model.                                                    *)

\* How many values the users.id sequence may hand out.
MaxSerial == 3
\* How many times the clock is advanced.
MaxTicks == 2
\* How many values the saved_movies.id sequence may hand out.
MaxSaved == 2

\* The client connections that issue register requests.
Procs == {"p1", "p2"}

----------------------------------------------------------------------------
(* JSON values of a request body: a type tag and the value's text.         *)

Str(s) == [t |-> "string", v |-> s]
Num(s) == [t |-> "number", v |-> s]
Undefined == [t |-> "undefined", v |-> ""]

\* express-validator's toString(): undefined gives '', a number its digits.
toString(x) == IF x.t = "undefined" THEN "" ELSE x.v

\* The positions of character c in the character sequence s.
IndexesOf(s, c) == {i \in 1..Len(s) : s[i] = c}

\* validator.js isEmail on a character sequence: one "@", a non-empty local
\* part, a domain of non-empty labels whose last one (the TLD) has at least
\* two characters.
IsEmail(s) ==
    LET ats == IndexesOf(s, "@") IN
    /\ Cardinality(ats) = 1
    /\ LET at == CHOOSE i \in ats : TRUE
           dom == SubSeq(s, at + 1, Len(s))
           dots == IndexesOf(dom, ".")
       IN /\ at > 1
          /\ dots # {}
          /\ 1 \notin dots
          /\ \A i \in dots : i + 1 \notin dots
          /\ \A i \in dots : i + 2 <= Len(dom)

EmailA == <<"a", "@", "x", ".", "i", "o">>
EmailB == <<"b", "@", "x", ".", "i", "o">>
EmailBad == <<"a", ".", "x">>

MinUsername == 3
MinPassword == 6
BcryptCost == 12

\* bcrypt.hash(s, cost) for a string s; the salt is left out.
BcryptHash(s) == [alg |-> "bcrypt", cost |-> BcryptCost, of |-> s]

\* bcryptjs rejects ("Illegal arguments") unless both arguments are strings.
BcryptAccepts(x) == x.t = "string"

\* bcrypt.compare(s, hash) for a string s.
BcryptCompare(s, hash) == hash = BcryptHash(s)

----------------------------------------------------------------------------
(* POST /api/register                                                      *)

\* body("username").isLength({ min: 3 })
UsernameOk(body) == Len(toString(body.username)) >= MinUsername

\* body("email").isEmail()
EmailOk(body) == IsEmail(body.email.v)

\* body("password").isLength({ min: 6 })
PasswordOk(body) == Len(toString(body.password)) >= MinPassword

\* body("confirmPassword").exists()
ConfirmExists(body) == body.confirmPassword.t # "undefined"

\* The express-validator chain of the route: one entry per failed field, in
\* the order of the chain.
ValidationChain(body) ==
    (IF UsernameOk(body) THEN <<>>
     ELSE <<[path |-> "username", msg |-> "username min 3 chars"]>>)
    \o (IF EmailOk(body) THEN <<>>
        ELSE <<[path |-> "email", msg |-> "invalid email"]>>)
    \o (IF PasswordOk(body) THEN <<>>
        ELSE <<[path |-> "password", msg |-> "password min 6 chars"]>>)
    \o (IF ConfirmExists(body) THEN <<>>
        ELSE <<[path |-> "confirmPassword", msg |-> "Invalid value"]>>)

\* Mutant: errors.array({ onlyFirstError: true }) taken over the whole chain.
FirstErrorOnly(body) == SubSeq(ValidationChain(body), 1, 1)

\* validationResult(req).array(): every failure of the chain.
RegisterErrors(body) == ValidationChain(body)

NoRow == [id |-> 0]
NoToken == [userId |-> 0]
NoBody == [empty |-> TRUE]
NoHash == [alg |-> "none"]

IdleReq ==
    [pc |-> "idle", body |-> NoBody, status |-> 0, errors |-> <<>>,
     message |-> "", user |-> NoRow, token |-> NoToken, hash |-> NoHash,
     err |-> "", since |-> {}]

InFlight == {"q_username", "q_email", "hash", "insert", "respond"}

\* A response ends the request.
Respond(r, status, message) ==
    [r EXCEPT !.pc = "done", !.status = status, !.message = message]

\* Mutant: the handler without its password comparison.
ValidateChainOnly(r) ==
    LET errors == RegisterErrors(r.body) IN
    IF errors # <<>>
    THEN [Respond(r, 400, "") EXCEPT !.errors = errors]
    ELSE [r EXCEPT !.pc = "q_username"]

\* Lines 47-53: the validation result, then the password comparison.
Validate(r) ==
    LET errors == RegisterErrors(r.body) IN
    IF errors # <<>>
    THEN [Respond(r, 400, "") EXCEPT !.errors = errors]
    ELSE IF r.body.password # r.body.confirmPassword
    THEN Respond(r, 400, "passwords do not match")
    ELSE [r EXCEPT !.pc = "q_username"]

RegisterStart(p, body) ==
    /\ reg[p].pc \in {"idle", "done"}
    /\ (usersSeq - 1) + Cardinality({q \in Procs : reg[q].pc \in InFlight})
         < MaxSerial
    /\ reg' = [reg EXCEPT ![p] =
                  Validate([IdleReq EXCEPT !.body = body,
                                            !.since = completed])]
    /\ UNCHANGED <<dbVars, now, ticks, completed, issued, removed, resp>>

\* SELECT id FROM users WHERE username = $1
SelectByUsername(username) == {u \in users : u.username = username}

\* Mutant: the email pre-check bound to a parameter that matches no row.
SelectByEmailNoMatch(email) == {u \in users : FALSE}

\* SELECT id FROM users WHERE email = $1
SelectByEmail(email) == {u \in users : u.email = email}

RegisterQueryUsername(p) ==
    /\ reg[p].pc = "q_username"
    /\ reg' = [reg EXCEPT ![p] =
                  IF SelectByUsername(toString(reg[p].body.username)) # {}
                  THEN Respond(@, 400, "username already taken")
                  ELSE [@ EXCEPT !.pc = "q_email"]]
    /\ UNCHANGED <<dbVars, now, ticks, completed, issued, removed, resp>>

RegisterQueryEmail(p) ==
    /\ reg[p].pc = "q_email"
    /\ reg' = [reg EXCEPT ![p] =
                  IF SelectByEmail(reg[p].body.email.v) # {}
                  THEN Respond(@, 400, "email already used")
                  ELSE [@ EXCEPT !.pc = "hash"]]
    /\ UNCHANGED <<dbVars, now, ticks, completed, issued, removed, resp>>

\* The catch block of the handler: any throw is answered 500.
Caught(r, err) == [Respond(r, 500, "internal error") EXCEPT !.err = err]

RegisterHash(p) ==
    /\ reg[p].pc = "hash"
    /\ reg' = [reg EXCEPT ![p] =
                  IF BcryptAccepts(reg[p].body.password)
                  THEN [@ EXCEPT !.pc = "insert",
                                 !.hash = BcryptHash(reg[p].body.password.v)]
                  ELSE Caught(@, "illegal_arguments")]
    /\ UNCHANGED <<dbVars, now, ticks, completed, issued, removed, resp>>

\* Mutant: the table created without its UNIQUE constraints.
NoConstraint(row) == FALSE

\* The UNIQUE constraints of CREATE TABLE users.
UniqueViolation(row) ==
    \E u \in users : u.username = row.username \/ u.email = row.email

\* INSERT INTO users (...) VALUES ($1,$2,$3,$4) RETURNING ...; the sequence
\* advances whether or not the row is accepted.
RegisterInsert(p) ==
    /\ reg[p].pc = "insert"
    /\ LET row == [id |-> usersSeq,
                   username |-> toString(reg[p].body.username),
                   email |-> reg[p].body.email.v,
                   password_hash |-> reg[p].hash,
                   display_name |-> toString(reg[p].body.username)]
       IN /\ usersSeq' = usersSeq + 1
          /\ IF UniqueViolation(row)
             THEN /\ users' = users
                  /\ reg' = [reg EXCEPT ![p] = Caught(@, "unique_violation")]
             ELSE /\ users' = users \cup {row}
                  /\ reg' = [reg EXCEPT ![p] = [@ EXCEPT !.pc = "respond",
                                                         !.user = row]]
    /\ UNCHANGED <<saved, savedSeq, now, ticks, completed, issued, removed,
                   resp>>

JwtSecret == "change_this_secret"
RegisterTTL == 3600
LoginTTL == 604800

\* jwt.sign({ userId }, JWT_SECRET, { expiresIn })
JwtSign(userId, key, ttl) ==
    [userId |-> userId, iat |-> now, exp |-> now + ttl, key |-> key]

RegisterToken(user) == JwtSign(user.id, JwtSecret, RegisterTTL)

sanitizeUser(row) ==
    [id |-> row.id, username |-> row.username, email |-> row.email,
     display_name |-> row.display_name]

RegisterRespond(p) ==
    /\ reg[p].pc = "respond"
    /\ LET token == RegisterToken(reg[p].user) IN
       /\ reg' = [reg EXCEPT ![p] =
                     [Respond(@, 201, "") EXCEPT !.token = token]]
       /\ issued' = issued \cup {[jwt |-> token, via |-> "register",
                                  username |-> reg[p].user.username]}
    /\ completed' = completed \cup {[username |-> reg[p].user.username,
                                     email |-> reg[p].user.email]}
    /\ UNCHANGED <<dbVars, now, ticks, removed, resp>>

RegisterStep(p) ==
    \/ RegisterQueryUsername(p)
    \/ RegisterQueryEmail(p)
    \/ RegisterHash(p)
    \/ RegisterInsert(p)
    \/ RegisterRespond(p)

----------------------------------------------------------------------------
(* The last response of a login or protected request, with the local       *)
(* variables of the handler that produced it.                              *)

NoHeader == [scheme |-> "none", token |-> NoToken]

NoResp ==
    [op |-> "none", at |-> 0, header |-> NoHeader, body |-> NoBody,
     status |-> 0, message |-> "", errors |-> <<>>, found |-> FALSE,
     user |-> NoRow, token |-> NoToken, ran |-> FALSE, movies |-> <<>>]

Request(op, header, body) ==
    [NoResp EXCEPT !.op = op, !.at = now, !.header = header, !.body = body]

Reply(r, status, message) == [r EXCEPT !.status = status, !.message = message]

----------------------------------------------------------------------------
(* POST /api/login                                                         *)

\* body("username").exists(), body("password").exists()
LoginErrors(body) ==
    (IF body.username.t # "undefined" THEN <<>>
     ELSE <<[path |-> "username", msg |-> "Invalid value"]>>)
    \o (IF body.password.t # "undefined" THEN <<>>
        ELSE <<[path |-> "password", msg |-> "Invalid value"]>>)

\* Mutant: the login token signed with the register route's expiresIn.
LoginTokenOneHour(user) == JwtSign(user.id, JwtSecret, RegisterTTL)

LoginToken(user) == JwtSign(user.id, JwtSecret, LoginTTL)

\* The answer to a username that matches no row.
UnknownUser(r) == Reply(r, 401, "invalid credentials")

\* The answer to a password that does not match the stored hash.
WrongPassword(r) == Reply(r, 401, "invalid credentials")

\* Lines 99-124 of the handler, on the rows the SELECT by username returned.
LoginResult(body) ==
    LET r == Request("login", NoHeader, body)
        errors == LoginErrors(body)
        rows == SelectByUsername(toString(body.username))
    IN  IF errors # <<>> THEN [Reply(r, 400, "") EXCEPT !.errors = errors]
        ELSE IF rows = {} THEN UnknownUser(r)
        ELSE LET user == CHOOSE u \in rows : TRUE
                 found == [r EXCEPT !.found = TRUE] IN
             IF ~BcryptAccepts(body.password)
             THEN Reply(found, 500, "internal error")
             ELSE IF ~BcryptCompare(body.password.v, user.password_hash)
             THEN WrongPassword(found)
             ELSE [Reply(found, 200, "") EXCEPT !.user = sanitizeUser(user),
                                                 !.token = LoginToken(user)]

\* A client that logs in keeps the new token in place of an older login
\* token.
Login(body) ==
    LET r == LoginResult(body) IN
    /\ resp' = r
    /\ issued' = IF r.status = 200
                 THEN {i \in issued : i.via # "login"}
                      \cup {[jwt |-> r.token, via |-> "login",
                              username |-> toString(body.username)]}
                 ELSE issued
    /\ UNCHANGED <<dbVars, now, ticks, reg, completed, removed>>

----------------------------------------------------------------------------
(* authMiddleware                                                          *)

Bearer(token) == [scheme |-> "Bearer", token |-> token]
Basic == [scheme |-> "Basic", token |-> NoToken]

\* Mutant: jwt.verify with ignoreExpiration.
JwtVerifyIgnoreExpiration(token, key) == token.key = key

\* jwt.verify(token, JWT_SECRET): the signature, then the expiry
\* (jsonwebtoken throws TokenExpiredError once clockTimestamp >= exp).
JwtVerify(token, key) == token.key = key /\ now < token.exp

\* SELECT id, username, email, display_name, created_at FROM users
\* WHERE id = $1
SelectById(id) ==
    {[id |-> u.id, username |-> u.username, email |-> u.email,
      display_name |-> u.display_name] : u \in {v \in users : v.id = id}}

\* What the middleware does with a request r: answers 401, or attaches the
\* user's row and calls next().
Auth(r) ==
    IF r.header.scheme # "Bearer" THEN Reply(r, 401, "no token")
    ELSE IF ~JwtVerify(r.header.token, JwtSecret)
    THEN Reply(r, 401, "invalid token")
    ELSE LET rows == SelectById(r.header.token.userId) IN
         IF rows = {} THEN Reply(r, 401, "invalid token")
         ELSE [r EXCEPT !.user = CHOOSE u \in rows : TRUE, !.ran = TRUE]

\* The headers of the clients that hold a token.
GivenHeaders == {Bearer(i.jwt) : i \in issued}

\* The headers a client may send: none, another scheme, a token it was
\* given, or such a token signed again with a guessed key.
Headers ==
    {NoHeader, Basic} \cup GivenHeaders
    \cup {Bearer([i.jwt EXCEPT !.key = "guess"]) : i \in issued}

----------------------------------------------------------------------------
(* GET /api/me                                                             *)

Me(header) ==
    LET r == Auth(Request("me", header, NoBody)) IN
    /\ resp' = IF r.ran
               THEN [Reply(r, 200, "") EXCEPT !.user = sanitizeUser(r.user)]
               ELSE r
    /\ UNCHANGED <<dbVars, now, ticks, reg, completed, issued, removed>>

----------------------------------------------------------------------------
(* POST /api/movies/save, GET /api/mymovies, DELETE /api/movies/:id        *)

\* The rows of saved_movies that satisfy a WHERE clause, in table order.
Where(rows, P(_)) == SelectSeq(rows, P)

Reverse(s) == [i \in 1..Len(s) |-> s[Len(s) + 1 - i]]

Save(header, body) ==
    LET r == Auth(Request("save", header, body)) IN
    IF ~r.ran
    THEN /\ resp' = r
         /\ UNCHANGED <<dbVars, now, ticks, reg, completed, issued, removed>>
    ELSE IF body.movie_id = 0 \/ body.title = ""
    THEN /\ resp' = Reply(r, 400, "movie_id & title required")
         /\ UNCHANGED <<dbVars, now, ticks, reg, completed, issued, removed>>
    ELSE LET row == [id |-> savedSeq, user_id |-> r.user.id,
                     movie_id |-> body.movie_id, title |-> body.title,
                     year |-> body.year, created_at |-> now] IN
         /\ savedSeq <= MaxSaved
         /\ saved' = Append(saved, row)
         /\ savedSeq' = savedSeq + 1
         /\ removed' = {d \in removed : ~(/\ d.user_id = r.user.id
                                            /\ d.movie_id = body.movie_id)}
         /\ resp' = [Reply(r, 201, "") EXCEPT !.movies = <<row>>]
         /\ UNCHANGED <<users, usersSeq, now, ticks, reg, completed, issued>>

\* SELECT * FROM saved_movies WHERE user_id = $1 ORDER BY created_at DESC;
\* rows of the same second come out latest insert first.
SelectSaved(userId) ==
    LET Mine(row) == row.user_id = userId IN Reverse(Where(saved, Mine))

List(header) ==
    LET r == Auth(Request("list", header, NoBody)) IN
    /\ resp' = IF r.ran
               THEN [Reply(r, 200, "") EXCEPT !.movies = SelectSaved(r.user.id)]
               ELSE r
    /\ UNCHANGED <<dbVars, now, ticks, reg, completed, issued, removed>>

\* Mutant: the WHERE clause without its user_id condition.
DeleteMatchesAnyOwner(row, userId, movieId) == row.movie_id = movieId

\* WHERE user_id = $1 AND movie_id = $2
DeleteMatches(row, userId, movieId) ==
    row.user_id = userId /\ row.movie_id = movieId

\* Mutant: a delete that stops at the first matching row.
DeleteFirstFrom(rows, userId, movieId) ==
    LET Hit(row) == DeleteMatches(row, userId, movieId)
        hits == {k \in 1..Len(rows) : Hit(rows[k])}
    IN  IF hits = {} THEN <<>>
        ELSE LET first == CHOOSE k \in hits : \A j \in hits : k <= j
             IN  <<rows[first]>>

\* The rows DELETE FROM saved_movies WHERE ... RETURNING id removes.
DeleteFrom(rows, userId, movieId) ==
    LET Hit(row) == DeleteMatches(row, userId, movieId) IN Where(rows, Hit)

Delete(header, movieId) ==
    LET r == Auth(Request("delete", header, [movie_id |-> movieId])) IN
    IF ~r.ran
    THEN /\ resp' = r
         /\ UNCHANGED <<dbVars, now, ticks, reg, completed, issued, removed>>
    ELSE LET rows == DeleteFrom(saved, r.user.id, movieId)
             Kept(row) == \A k \in 1..Len(rows) : rows[k] # row IN
         /\ saved' = Where(saved, Kept)
         /\ removed' = IF rows = <<>> THEN removed
                       ELSE removed \cup {[user_id |-> r.user.id,
                                            movie_id |-> movieId,
                                            rows |-> Len(rows)]}
         /\ resp' = IF rows = <<>> THEN Reply(r, 404, "movie not found")
                    ELSE [Reply(r, 200, "movie removed") EXCEPT !.movies = rows]
         /\ UNCHANGED <<users, usersSeq, savedSeq, now, ticks, reg, completed,
                        issued>>

----------------------------------------------------------------------------
(* The clock.                                                              *)

TickSteps == {1, RegisterTTL - 1, LoginTTL - 1}

Tick(d) ==
    /\ ticks < MaxTicks
    /\ now' = now + d
    /\ ticks' = ticks + 1
    /\ resp' = NoResp
    /\ UNCHANGED <<dbVars, reg, completed, issued, removed>>

----------------------------------------------------------------------------
Init ==
    /\ users = {}
    /\ usersSeq = 1
    /\ saved = <<>>
    /\ savedSeq = 1
    /\ now = 0
    /\ ticks = 0
    /\ reg = [p \in Procs |-> IdleReq]
    /\ completed = {}
    /\ issued = {}
    /\ removed = {}
    /\ resp = NoResp

\* Register bodies: every combination of a short or a long enough username,
\* a malformed or a well-formed email, a short, a good or a numeric
\* password, and a missing, equal or different confirmPassword.
AllBodies ==
    [username : {Str("al"), Str("alice"), Str("bob")},
     email : {Str(EmailBad), Str(EmailA), Str(EmailB)},
     password : {Str("short"), Str("secret1"), Num("123456")},
     confirmPassword : {Undefined, Str("short"), Str("secret1"),
                        Num("123456")}]

\* Well-formed register bodies that compete for two usernames and two
\* emails, with and without matching passwords.
RaceBodies ==
    [username : {Str("alice"), Str("bob")},
     email : {Str(EmailA), Str(EmailB)},
     password : {Str("secret1")},
     confirmPassword : {Str("secret1"), Str("secret2")}]

\* The two accounts of the login and saved-movie scenarios.
AccountBodies ==
    {[username |-> Str("alice"), email |-> Str(EmailA),
      password |-> Str("secret1"), confirmPassword |-> Str("secret1")],
     [username |-> Str("bob"), email |-> Str(EmailB),
      password |-> Str("secret1"), confirmPassword |-> Str("secret1")]}

LoginBodies ==
    [username : {Undefined, Str("alice"), Str("bob"), Str("carol")},
     password : {Str("secret1"), Str("wrong"), Num("123456")}]

MovieIds == {603, 604}

SaveBodies ==
    [movie_id : MovieIds, title : {"The Matrix"}, year : {"1999"}]
    \cup {[movie_id |-> 0, title |-> "The Matrix", year |-> "1999"],
          [movie_id |-> 603, title |-> "", year |-> "1999"]}

\* Concurrent registrations.
Next ==
    \/ \E p \in Procs, body \in RaceBodies : RegisterStart(p, body)
    \/ \E p \in Procs : RegisterStep(p)

Spec == Init /\ [][Next]_vars

\* A client that sends every body, beside one that registers the accounts.
NextValidation ==
    \/ \E body \in AllBodies : RegisterStart("p1", body)
    \/ \E body \in AccountBodies : RegisterStart("p2", body)
    \/ \E p \in Procs : RegisterStep(p)

SpecValidation == Init /\ [][NextValidation]_vars

\* Accounts and login attempts.
NextLogin ==
    \/ \E body \in AccountBodies : RegisterStart("p1", body)
    \/ RegisterStep("p1")
    \/ \E body \in LoginBodies : Login(body)

SpecLogin == Init /\ [][NextLogin]_vars

\* The logins of the two accounts, one of them with a wrong password.
SessionBodies ==
    {[username |-> Str("alice"), password |-> Str("secret1")],
     [username |-> Str("bob"), password |-> Str("secret1")],
     [username |-> Str("alice"), password |-> Str("wrong")]}

\* Accounts, logins and the clock in front of a protected route.
NextAuth ==
    \/ \E body \in AccountBodies : RegisterStart("p1", body)
    \/ RegisterStep("p1")
    \/ \E body \in SessionBodies : Login(body)
    \/ \E header \in Headers : Me(header)
    \/ \E d \in TickSteps : Tick(d)

SpecAuth == Init /\ [][NextAuth]_vars

\* Accounts and their saved movies.
NextMovies ==
    \/ \E body \in AccountBodies : RegisterStart("p1", body)
    \/ RegisterStep("p1")
    \/ \E header \in {NoHeader} \cup GivenHeaders, body \in SaveBodies :
          Save(header, body)
    \/ \E header \in {NoHeader} \cup GivenHeaders : List(header)
    \/ \E header \in {NoHeader} \cup GivenHeaders, id \in MovieIds :
          Delete(header, id)

SpecMovies == Init /\ [][NextMovies]_vars

----------------------------------------------------------------------------
(* Properties.                                                             *)

\* A register request that has been read, with its body.
Started(p) == reg[p].pc # "idle"

Mismatch(body) == body.password # body.confirmPassword

\* C1: under any interleaving of register requests, the users table never
\* holds two rows with the same username, nor two with the same email.
C1_UsersUnique ==
    \A u \in users, v \in users :
        (u.username = v.username \/ u.email = v.email) => u = v

\* Two requests for the same username or email both passed the pre-checks,
\* one row was inserted and the other INSERT was refused.
C1_Witness ==
    \E p \in Procs : reg[p].err = "unique_violation" /\ users # {}

\* The request of p names a username or an email that had been answered 201
\* before the request started.
TakenBefore(p) ==
    \E c \in reg[p].since :
        \/ c.username = toString(reg[p].body.username)
        \/ c.email = reg[p].body.email.v

ConflictMessages == {"username already taken", "email already used"}

\* C2: a well-formed register request started after a 201 for the same
\* username or the same email never gets past the pre-checks: it is answered
\* 400 with a conflict message and inserts no row.
C2_TakenIsConflict ==
    \A p \in Procs :
        (/\ Started(p)
         /\ ValidationChain(reg[p].body) = <<>>
         /\ ~Mismatch(reg[p].body)
         /\ TakenBefore(p))
        => /\ reg[p].pc \in {"q_username", "q_email", "done"}
           /\ reg[p].user = NoRow
           /\ reg[p].pc = "done" =>
                  /\ reg[p].status = 400
                  /\ reg[p].message \in ConflictMessages

\* A request with a fresh username and the email of an earlier 201 has been
\* answered "email already used".
C2_Witness ==
    \E p \in Procs :
        /\ reg[p].pc = "done"
        /\ TakenBefore(p)
        /\ \A c \in reg[p].since :
               c.username # toString(reg[p].body.username)
        /\ reg[p].status = 400
        /\ reg[p].message = "email already used"

\* The request of p failed because its username or email is held by another
\* row: found by a pre-check SELECT, or by the INSERT.
FailedOnUniqueness(p) ==
    /\ reg[p].pc = "done"
    /\ \/ reg[p].message \in ConflictMessages
       \/ reg[p].err = "unique_violation"

\* C9: every register request that fails on uniqueness, in a pre-check or
\* in the INSERT, is answered 400, never 500.
C9_UniquenessIs400 ==
    \A p \in Procs : FailedOnUniqueness(p) => reg[p].status = 400

\* C6: a register request whose password differs from confirmPassword is
\* answered 400 at once, never reaches the database and gets no row or
\* token, and the step that reads it leaves the users table as it was.
C6_MismatchAnswered ==
    \A p \in Procs :
        (Started(p) /\ Mismatch(reg[p].body))
        => /\ reg[p].pc = "done"
           /\ reg[p].status = 400
           /\ reg[p].user = NoRow
           /\ reg[p].token = NoToken

C6_MismatchFrame ==
    \A p \in Procs :
        (reg'[p] # reg[p] /\ reg'[p].pc # "idle" /\ Mismatch(reg'[p].body))
        => users' = users /\ usersSeq' = usersSeq

C6_MismatchRejected == [](C6_MismatchAnswered) /\ [][C6_MismatchFrame]_vars

\* An otherwise valid body with different passwords was answered "passwords
\* do not match" while the other client's registration was in flight.
C6_Witness ==
    /\ reg["p1"].pc = "done"
    /\ ValidationChain(reg["p1"].body) = <<>>
    /\ Mismatch(reg["p1"].body)
    /\ reg["p1"].message = "passwords do not match"
    /\ reg["p2"].pc = "insert"

\* The constraints of Register a body violates.
Violated(body) ==
    (IF UsernameOk(body) THEN {} ELSE {"username"})
    \cup (IF EmailOk(body) THEN {} ELSE {"email"})
    \cup (IF PasswordOk(body) THEN {} ELSE {"password"})
    \cup (IF Mismatch(body) THEN {"confirmPassword"} ELSE {})

\* The constraints the response to p reports: the paths of its errors array,
\* and confirmPassword for the message about the passwords.
Reported(p) ==
    {reg[p].errors[k].path : k \in 1..Len(reg[p].errors)}
    \cup (IF reg[p].message = "passwords do not match"
          THEN {"confirmPassword"} ELSE {})

\* C10 as stated: a request that violates several constraints is answered
\* 400 with every violated constraint reported, the password mismatch
\* among them.
C10_AllViolationsReported ==
    \A p \in Procs :
        (reg[p].pc = "done" /\ Cardinality(Violated(reg[p].body)) >= 2)
        => reg[p].status = 400 /\ Violated(reg[p].body) \subseteq Reported(p)

\* The constraints the validator chain checks.
ChainViolated(body) ==
    (IF UsernameOk(body) THEN {} ELSE {"username"})
    \cup (IF EmailOk(body) THEN {} ELSE {"email"})
    \cup (IF PasswordOk(body) THEN {} ELSE {"password"})
    \cup (IF ConfirmExists(body) THEN {} ELSE {"confirmPassword"})

\* C10 amended: the 400 response reports exactly the violated constraints
\* of the chain (username length, email syntax, password length,
\* confirmPassword present), all of them; a password mismatch is reported,
\* alone, only when the chain found nothing.
C10_ChainViolationsReported ==
    \A p \in Procs :
        reg[p].pc = "done" =>
            /\ ChainViolated(reg[p].body) # {} =>
                   /\ reg[p].status = 400
                   /\ Reported(p) = ChainViolated(reg[p].body)
                   /\ Len(reg[p].errors)
                        = Cardinality(ChainViolated(reg[p].body))
                   /\ reg[p].message = ""
            /\ (ChainViolated(reg[p].body) = {} /\ Mismatch(reg[p].body)) =>
                   /\ reg[p].status = 400
                   /\ reg[p].errors = <<>>
                   /\ reg[p].message = "passwords do not match"

\* A body with a short username, a malformed email, a short password and a
\* different confirmPassword was answered with the three errors of the
\* chain, and no word about the passwords.
C10_Witness ==
    \E p \in Procs :
        /\ reg[p].pc = "done"
        /\ Violated(reg[p].body)
             = {"username", "email", "password", "confirmPassword"}
        /\ ConfirmExists(reg[p].body)
        /\ Reported(p) = {"username", "email", "password"}

\* The login request answered by resp carried a username and a password.
CarriesCredentials ==
    /\ resp.op = "login"
    /\ resp.body.username.t # "undefined"
    /\ resp.body.password.t # "undefined"

\* The password of the login request is the one the account registered with.
RightPassword ==
    \E u \in users :
        /\ u.username = toString(resp.body.username)
        /\ resp.body.password.t = "string"
        /\ u.password_hash = BcryptHash(resp.body.password.v)

\* C8: a login with an unknown username, and a login with a known username
\* and a wrong password, get the same answer: 401 "invalid credentials",
\* and no token.
C8_SameAnswer ==
    (CarriesCredentials /\ (~resp.found \/ ~RightPassword))
    => /\ resp.status = 401
       /\ resp.message = "invalid credentials"
       /\ resp.token = NoToken
       /\ resp.user = NoRow

SevenDays == 7 * 24 * 3600
OneHour == 60 * 60

\* The record of the token that the request answered by resp presented, if a
\* client was given it.
Presented(via) ==
    {i \in issued : i.via = via /\ resp.header = Bearer(i.jwt)}

\* C3: a login token presented before its seven days are over is accepted,
\* and the user attached is the account that logged in.
C3_LoginTokenResolves ==
    \A i \in Presented("login") :
        (resp.op = "me" /\ resp.at < i.jwt.iat + SevenDays)
        => /\ resp.status = 200
           /\ \E u \in users : u.username = i.username /\ u.id = resp.user.id

\* bob, the second account, logged in and presented his token in the last
\* second of its seventh day.
C3_Witness ==
    \E i \in Presented("login") :
        /\ resp.op = "me"
        /\ resp.at = i.jwt.iat + SevenDays - 1
        /\ i.username = "bob"
        /\ resp.status = 200
        /\ resp.user.id = 2

\* The lifetime of a token, by the route that issued it.
Lifetime(via) == IF via = "register" THEN OneHour ELSE SevenDays

\* C4: a token presented at or after its expiry is answered 401 "invalid
\* token", whichever route issued it, and the route behind the middleware
\* does not run.
C4_ExpiredRejected ==
    \A i \in issued :
        (/\ resp.op = "me"
         /\ resp.header = Bearer(i.jwt)
         /\ resp.at >= i.jwt.iat + Lifetime(i.via))
        => /\ resp.status = 401
           /\ resp.message = "invalid token"
           /\ ~resp.ran
           /\ resp.user = NoRow

\* A register token was presented in the very second it expired, while its
\* account exists, and was refused.
C4_Witness ==
    \E i \in Presented("register") :
        /\ resp.op = "me"
        /\ resp.at = i.jwt.iat + OneHour
        /\ \E u \in users : u.id = i.jwt.userId
        /\ resp.status = 401

\* The account that holds the token of the request answered by resp.
Requester ==
    {u \in users : \E i \in issued : /\ resp.header = Bearer(i.jwt)
                                     /\ i.username = u.username}

\* C5, listing: the rows a list returns all belong to the account whose
\* token was presented.
C5_ListOwnRows ==
    (resp.op = "list" /\ resp.status = 200)
    => \A k \in 1..Len(resp.movies) :
           \A u \in Requester : resp.movies[k].user_id = u.id

\* The movie_id a delete request named.
DeletedId(r) == IF r.op = "delete" THEN r.body.movie_id ELSE 0

\* C5, deleting: a row leaves saved_movies only in a delete answered 200 to
\* its owner for its movie_id; and a delete of a movie_id the requester has
\* not saved is answered 404 and changes no row.
C5_DeleteOwnRows ==
    /\ \A k \in 1..Len(saved) :
           (\A j \in 1..Len(saved') : saved'[j] # saved[k])
           => /\ resp'.op = "delete"
              /\ resp'.status = 200
              /\ DeletedId(resp') = saved[k].movie_id
              /\ \A u \in Requester' : u.id = saved[k].user_id
              /\ Requester' # {}
    /\ (/\ resp' # resp
        /\ resp'.op = "delete"
        /\ resp'.ran
        /\ \A k \in 1..Len(saved) :
               ~(/\ saved[k].movie_id = DeletedId(resp')
                 /\ \E u \in Requester' : u.id = saved[k].user_id))
       => resp'.status = 404 /\ saved' = saved

C5_OwnRowsOnly == [](C5_ListOwnRows) /\ [][C5_DeleteOwnRows]_vars

\* A delete of a movie_id that only the other account has saved was
\* answered 404, and the other account's row is still there.
C5_Witness ==
    /\ resp.op = "delete"
    /\ resp.status = 404
    /\ resp.ran
    /\ \E k \in 1..Len(saved) :
           /\ saved[k].movie_id = DeletedId(resp)
           /\ saved[k].user_id # resp.user.id

\* C7: after a delete answered 200, as long as the user has not saved the
\* movie_id again, the table holds no row of that user and movie_id, and a
\* list for that user returns none, however many rows there were.
C7_DeletedStaysGone ==
    \A d \in removed :
        /\ \A k \in 1..Len(saved) :
               ~(saved[k].user_id = d.user_id /\ saved[k].movie_id = d.movie_id)
        /\ (resp.op = "list" /\ resp.status = 200 /\ resp.user.id = d.user_id)
           => \A k \in 1..Len(resp.movies) :
                  resp.movies[k].movie_id # d.movie_id

\* A user who had saved the same movie twice deleted it, and then listed.
C7_Witness ==
    \E d \in removed :
        /\ d.rows = 2
        /\ resp.op = "list"
        /\ resp.status = 200
        /\ resp.user.id = d.user_id

====
